---- MODULE Spec2Model ----
(***************************************************************************)
(* Checkout-session lifecycle engine of the ACP Checkout Gateway:          *)
(* the versioned session history table, the idempotency table, the         *)
(* CheckoutSession aggregate and the five request handlers of              *)
(* checkoutController.ts, each split at the points where it awaits the     *)
(* store, so that concurrent requests interleave exactly there; and        *)
(* WebhookService.send, the detached delivery of the events the handlers   *)
(* dispatch.                                                               *)
(***************************************************************************)
EXTENDS Integers, Sequences, FiniteSets, TLC

(***************************************************************************)
(* Bounds of the model.                                                    *)
(***************************************************************************)
MaxRequests == 3
MaxSessions == 2

\* a request arrives while fewer than MaxPending detached sends are pending
MaxPending == 1

Workers == {1, 2}

\* Idempotency-Key header values: a client-chosen key that clients may
\* reuse, and NoKey for a request that sends no header
ClientKeys == { <<"client", 1>> }
NoKey == <<"none", 0>>
RandomKey(n) == <<"uuid", n>>

Undefined == "undefined"
NoAddress == "details_without_address"
Addr1 == "addr1"
BuyerJ == "J"

SessionIds == 1..MaxSessions

(***************************************************************************)
(* Data of the merchant capability (services/merchant.ts).                 *)
(***************************************************************************)
ShipStandard ==
  [id |-> "ship_standard", type |-> "shipping", total |-> 180]
ShipExpedited ==
  [id |-> "ship_expedited", type |-> "shipping", total |-> 270]

\* RealMerchantService.getDefaultShippingOptions
DefaultShippingOptions ==
  << [id |-> "ship_standard", type |-> "shipping", total |-> 599],
     [id |-> "ship_express", type |-> "shipping", total |-> 1299] >>

\* RealMerchantService.getShippingOptions on the rates of
\* FlatRateShippingProvider.getRates: weightMultiplier is
\* Math.ceil(totalWeight / 500), and total = price + floor(price * 0.08)
FlatRateOptions(weightMultiplier) ==
  LET option(id, price) ==
        [id |-> id, type |-> "shipping",
         total |-> price + (price * 8) \div 100]
  IN << option("ground", 499 * weightMultiplier),
        option("priority", 899 * weightMultiplier),
        option("express", 1999 * weightMultiplier) >>

\* MerchantServiceStub.getMerchantData
StubShippingOptions == <<ShipStandard, ShipExpedited>>

\* the rates of a cart without products, whose weight is 0
EmptyCartShippingOptions == FlatRateOptions(0)

\* fulfillment option lists a merchant implementation may return: none,
\* those of MerchantServiceStub, and those of RealMerchantService without
\* and with an address
OptionLists ==
  { <<>>, StubShippingOptions, DefaultShippingOptions,
    EmptyCartShippingOptions }

\* requested items: [id, quantity]
Sku1 == [id |-> "sku1", quantity |-> 1]
Sku2Twice == [id |-> "sku2", quantity |-> 2]

\* Array.from(productId).reduce((hash, char) => hash + char.charCodeAt(0), 0)
\* for the product ids in use: s = 115, k = 107, u = 117, 1 = 49, 2 = 50
charCodeSum(productId) ==
  CASE productId = "sku1" -> 115 + 107 + 117 + 49
    [] productId = "sku2" -> 115 + 107 + 117 + 50

\* MerchantServiceStub.generatePricing: unit price in cents; the tax rate
\* 0.08 is applied in fetchLineItem
generatePricing(productId) ==
  [unit_price |-> 500 + (charCodeSum(productId) % 4500), tax_percent |-> 8]

\* one element of fetchLineItems; Math.floor(x * 0.10) and
\* Math.floor(x * 0.08) as integer divisions
fetchLineItem(item) ==
  LET pricing == generatePricing(item.id)
      base_amount == pricing.unit_price * item.quantity
      discount == IF item.quantity > 1 THEN (base_amount * 10) \div 100 ELSE 0
      subtotal == base_amount - discount
      tax == (subtotal * pricing.tax_percent) \div 100
  IN [item |-> item, base_amount |-> base_amount, discount |-> discount,
      subtotal |-> subtotal, tax |-> tax, total |-> subtotal + tax]

fetchLineItems(items) == [i \in 1..Len(items) |-> fetchLineItem(items[i])]

getMerchantData(items, options) ==
  [line_items |-> fetchLineItems(items), fulfillment_options |-> options]

NoOrder == [id |-> 0, permalink_url |-> 0]
createOrder(n) == [id |-> n, permalink_url |-> n]

(***************************************************************************)
(* CheckoutSession aggregate (model/checkoutSession.ts).                   *)
(***************************************************************************)
RECURSIVE SumField(_, _)
SumField(lineItems, f) ==
  IF lineItems = <<>> THEN 0
  ELSE Head(lineItems)[f] + SumField(Tail(lineItems), f)

calculateTotalsDiscountAdded(lineItems) ==
  << [type |-> "items_base_amount", amount |-> SumField(lineItems, "base_amount")],
     [type |-> "items_discount", amount |-> SumField(lineItems, "discount")],
     [type |-> "subtotal", amount |-> SumField(lineItems, "subtotal")],
     [type |-> "tax", amount |-> SumField(lineItems, "tax")],
     [type |-> "total", amount |-> SumField(lineItems, "total")] >>

calculateTotals(lineItems) ==
  << [type |-> "items_base_amount", amount |-> SumField(lineItems, "base_amount")],
     [type |-> "items_discount", amount |-> 0 - SumField(lineItems, "discount")],
     [type |-> "subtotal", amount |-> SumField(lineItems, "subtotal")],
     [type |-> "tax", amount |-> SumField(lineItems, "tax")],
     [type |-> "total", amount |-> SumField(lineItems, "total")] >>

NewSession(sessionId) ==
  [id |-> sessionId,
   status |-> "not_ready_for_payment",
   line_items |-> <<>>,
   totals |-> <<>>,
   buyer |-> Undefined,
   fulfillment_details |-> Undefined,
   fulfillment_options |-> <<>>,
   selected_fulfillment_options |-> <<>>,
   order |-> NoOrder]

HasAddress(details) == details \notin {Undefined, NoAddress}

isReadyForPaymentNoBuyer(state) ==
  /\ Len(state.line_items) > 0
  /\ Len(state.fulfillment_options) > 0
  /\ Len(state.selected_fulfillment_options) > 0
  /\ HasAddress(state.fulfillment_details)
  /\ state.status # "completed"
  /\ state.status # "canceled"

isReadyForPayment(state) ==
  /\ Len(state.line_items) > 0
  /\ Len(state.fulfillment_options) > 0
  /\ Len(state.selected_fulfillment_options) > 0
  /\ HasAddress(state.fulfillment_details)
  /\ state.buyer # Undefined
  /\ state.status # "completed"
  /\ state.status # "canceled"

isNotReadyForPayment(state) ==
  /\ \/ Len(state.line_items) = 0
     \/ Len(state.fulfillment_options) = 0
     \/ Len(state.selected_fulfillment_options) = 0
     \/ ~HasAddress(state.fulfillment_details)
     \/ state.buyer = Undefined
  /\ state.status # "completed"
  /\ state.status # "canceled"

updateStatus(state) ==
  IF isReadyForPayment(state) THEN [state EXCEPT !.status = "ready_for_payment"]
  ELSE IF isNotReadyForPayment(state)
       THEN [state EXCEPT !.status = "not_ready_for_payment"]
       ELSE state

setLineItems(state, lineItems) ==
  updateStatus([state EXCEPT !.line_items = lineItems,
                             !.totals = calculateTotals(lineItems)])

OptionIds(options) == {options[i].id : i \in 1..Len(options)}

\* options.reduce((prev, curr) => prev.total < curr.total ? prev : curr, options[0])
RECURSIVE CheapestFrom(_, _)
CheapestFrom(prev, rest) ==
  IF rest = <<>> THEN prev
  ELSE CheapestFrom(IF prev.total < Head(rest).total THEN prev ELSE Head(rest),
                    Tail(rest))

cheapestOptionFirst(options) == options[1]

cheapestOption(options) == CheapestFrom(options[1], options)

ItemIds(lineItems) == [i \in 1..Len(lineItems) |-> lineItems[i].item.id]

validSelectionAssumed(currentSelections, options) == Len(currentSelections) > 0

validSelection(currentSelections, options) ==
  /\ Len(currentSelections) > 0
  /\ \A i \in 1..Len(currentSelections) :
       currentSelections[i].option_id \in OptionIds(options)

setFulfillmentOptionsOnly(state, options) ==
  updateStatus([state EXCEPT !.fulfillment_options = options])

setFulfillmentOptions(state, options) ==
  IF Len(options) = 0
  THEN updateStatus([state EXCEPT !.fulfillment_options = options,
                                  !.selected_fulfillment_options = <<>>])
  ELSE IF validSelection(state.selected_fulfillment_options, options)
       THEN updateStatus([state EXCEPT !.fulfillment_options = options])
       ELSE updateStatus(
              [state EXCEPT
                 !.fulfillment_options = options,
                 !.selected_fulfillment_options =
                    << [type |-> cheapestOption(options).type,
                        option_id |-> cheapestOption(options).id,
                        item_ids |-> ItemIds(state.line_items)] >>])

setMerchantData(state, data) ==
  setFulfillmentOptions(setLineItems(state, data.line_items),
                        data.fulfillment_options)

setBuyer(state, buyer) == updateStatus([state EXCEPT !.buyer = buyer])

setFulfillmentDetails(state, details) ==
  updateStatus([state EXCEPT !.fulfillment_details = details])

validSelections(state, selections) ==
  SelectSeq(selections,
            LAMBDA sel : sel.option_id \in OptionIds(state.fulfillment_options))

setSelectedFulfillmentOptionsAlways(state, selections) ==
  updateStatus([state EXCEPT !.selected_fulfillment_options =
                               validSelections(state, selections)])

setSelectedFulfillmentOptions(state, selections) ==
  IF Len(validSelections(state, selections)) > 0
  THEN updateStatus([state EXCEPT !.selected_fulfillment_options =
                                     validSelections(state, selections)])
  ELSE updateStatus(state)

\* merchantData, buyer, fulfillmentDetails, selectedFulfillmentOptions:
\* each is a record [given |-> BOOLEAN, value |-> ...], given = FALSE for
\* an argument that is undefined
update(state, merchantData, buyer, fulfillmentDetails, selections) ==
  LET s1 == IF merchantData.given
            THEN setMerchantData(state, merchantData.value) ELSE state
      s2 == IF buyer # Undefined THEN setBuyer(s1, buyer) ELSE s1
      s3 == IF fulfillmentDetails # Undefined
            THEN setFulfillmentDetails(s2, fulfillmentDetails) ELSE s2
  IN IF selections.given
     THEN setSelectedFulfillmentOptions(s3, selections.value) ELSE s3

canBeCompletedUnlessCompleted(state) == state.status # "completed"

canBeCompletedAlways(state) == TRUE

canBeCompleted(state) == state.status = "ready_for_payment"

completeOrderOnly(state, order) ==
  IF canBeCompleted(state) THEN [state EXCEPT !.order = order] ELSE state

complete(state, order) ==
  IF canBeCompleted(state)
  THEN [state EXCEPT !.status = "completed", !.order = order]
  ELSE state

canBeCanceled(state) ==
  state.status # "completed" /\ state.status # "canceled"

cancelUnguarded(state) == [state EXCEPT !.status = "canceled"]

cancel(state) ==
  IF canBeCanceled(state) THEN [state EXCEPT !.status = "canceled"] ELSE state

(***************************************************************************)
(* State.                                                                  *)
(*   sessionHistoryTable  items of the session history table, keyed by     *)
(*                        (SessionId, Version)                             *)
(*   idempotencyTable     items of the idempotency table, keyed by         *)
(*                        IdempotencyKey                                   *)
(*   req                  per request-handling task: its position, its     *)
(*                        request, its locals and its response             *)
(*   orders               orders created by the order capability           *)
(*   nreq                 number of requests received so far               *)
(*   nextSessionId        number of session ids minted so far, plus one    *)
(*   webhookConfig        config of the WebhookService singleton           *)
(*   deliveries           calls of WebhookService.send that have not       *)
(*                        settled yet                                      *)
(*   lastBody             body of the create or update request that the    *)
(*                        one client of SpecCart sent last                 *)
(*   sqs                  the queue-driven webhook sender: its environment, *)
(*                        the batch it was invoked with and how far each   *)
(*                        record of the batch has got                      *)
(***************************************************************************)
VARIABLES sessionHistoryTable, idempotencyTable, req, orders, nreq,
          nextSessionId, webhookConfig, deliveries, lastBody, sqs

vars == <<sessionHistoryTable, idempotencyTable, req, orders, nreq,
          nextSessionId, webhookConfig, deliveries, lastBody, sqs>>

webhookVars == <<webhookConfig, deliveries>>

NullState == NewSession(0)

NoBody ==
  [items |-> [given |-> FALSE, value |-> <<>>],
   buyer |-> Undefined,
   fulfillment_details |-> Undefined,
   selected_fulfillment_options |-> [given |-> FALSE, value |-> <<>>],
   payment_data |-> FALSE]

NoResponse == [code |-> 0, type |-> "", errcode |-> "", body |-> NullState]

IdleRequest ==
  [pc |-> "idle", op |-> "none", sid |-> 0, key |-> NoKey, body |-> NoBody,
   session |-> NullState, version |-> 0, reason |-> "",
   existing |-> 0, seenVersion |-> 0, seenStatus |-> "", replay |-> FALSE,
   keyFound |-> FALSE, merchantCalls |-> 0, failed |-> "",
   saves |-> 0, saved |-> 0, ordersCreated |-> 0, events |-> <<>>,
   res |-> NoResponse]

(***************************************************************************)
(* middleware/headerPropagation.ts and model/requestMetadata.ts            *)
(***************************************************************************)
propagateHeadersUnchanged(header, n) == header

\* req.headers['idempotency-key'] || crypto.randomUUID(): an absent header
\* and an empty one (both NoKey) are replaced by a key no other request has
propagateHeaders(header, n) == IF header = NoKey THEN RandomKey(n) ELSE header

(***************************************************************************)
(* repository.ts                                                           *)
(***************************************************************************)
SessionItems(sessionId) == {it \in sessionHistoryTable : it.SessionId = sessionId}

latestVersionOf(items) ==
  IF items = {} THEN 0
  ELSE CHOOSE v \in {it.Version : it \in items} :
         \A it \in items : it.Version <= v

\* pastResponses.get(key): items are read in ascending Version order and
\* each one overwrites the entry of its key, so the highest version wins
pastResponse(items, key) ==
  LET mine == {it \in items : it.IdempotencyKey = key}
  IN IF mine = {} THEN NullState
     ELSE (CHOOSE it \in mine : \A o \in mine : o.Version <= it.Version).Data

getSessionHistory(sessionId) ==
  [sessionId |-> sessionId,
   items |-> SessionItems(sessionId),
   latestVersion |-> latestVersionOf(SessionItems(sessionId))]

\* SessionHistory.latest
latest(history) ==
  IF history.latestVersion = 0 THEN NewSession(history.sessionId)
  ELSE (CHOOSE it \in history.items : it.Version = history.latestVersion).Data

nextVersionSkips(history) == history.latestVersion + 2

nextVersion(history) == history.latestVersion + 1

\* getSessionIdByIdempotencyKey: 0 stands for null (a failed GetCommand,
\* which the method also turns into null, is not modelled)
getSessionIdByIdempotencyKey(key) ==
  IF \E m \in idempotencyTable : m.IdempotencyKey = key
  THEN (CHOOSE m \in idempotencyTable : m.IdempotencyKey = key).SessionId
  ELSE 0

setSessionIdUnconditional(key) == TRUE

\* ConditionExpression of setSessionId
setSessionIdCondition(key) ==
  ~ \E m \in idempotencyTable : m.IdempotencyKey = key

saveSessionUnconditional(sessionId, version) == TRUE

\* ConditionExpression of saveSession
saveSessionCondition(sessionId, version) ==
  ~ \E it \in sessionHistoryTable :
       it.SessionId = sessionId /\ it.Version = version

\* PutCommand on a table: the item replaces the item of the same primary key
putSessionItem(item) ==
  {it \in sessionHistoryTable :
     ~(it.SessionId = item.SessionId /\ it.Version = item.Version)} \cup {item}

putIdempotencyItem(item) ==
  {m \in idempotencyTable : m.IdempotencyKey # item.IdempotencyKey} \cup {item}

saveSessionItem(session, version, reason, key) ==
  [SessionId |-> session.id, Version |-> version, Status |-> session.status,
   Reason |-> reason, IdempotencyKey |-> key, Data |-> session]

(***************************************************************************)
(* Request inputs.                                                         *)
(***************************************************************************)
Absent == [given |-> FALSE, value |-> <<>>]
Given(v) == [given |-> TRUE, value |-> v]

Select(optionId) ==
  [type |-> "shipping", option_id |-> optionId, item_ids |-> <<"sku1">>]

Body(items, buyer, details, selections, payment) ==
  [items |-> items, buyer |-> buyer, fulfillment_details |-> details,
   selected_fulfillment_options |-> selections, payment_data |-> payment]

Headers == ClientKeys \cup {NoKey}

\* one request body of each kind that leads a session from its creation
\* to its completion
ReadyBody == Body(Given(<<Sku1>>), BuyerJ, Addr1, Absent, FALSE)

SelectBody ==
  Body(Absent, Undefined, Undefined, Given(<<Select("ship_expedited")>>), FALSE)

PayBody == Body(Absent, Undefined, Undefined, Absent, TRUE)

\* create: items alone, or items with buyer and address
CreateBodies ==
  { Body(Given(<<Sku1>>), Undefined, Undefined, Absent, FALSE), ReadyBody }

\* update: one field at a time, or buyer, address and selection together
UpdateBodies ==
  { Body(Given(<<>>), Undefined, Undefined, Absent, FALSE),
    Body(Absent, BuyerJ, Undefined, Absent, FALSE),
    Body(Absent, Undefined, NoAddress, Absent, FALSE),
    Body(Absent, Undefined, Addr1, Absent, FALSE),
    Body(Absent, Undefined, Undefined, Given(<<Select("ship_expedited")>>), FALSE),
    Body(Absent, Undefined, Undefined, Given(<<Select("no_such_option")>>), FALSE),
    Body(Absent, BuyerJ, Addr1, Given(<<Select("ship_expedited")>>), FALSE) }

CompleteBodies ==
  { Body(Absent, buyer, Undefined, Absent, payment) :
      buyer \in {Undefined, BuyerJ}, payment \in BOOLEAN }

(***************************************************************************)
(* webhookService.sendSessionEvent / sendOrderEvent: the payload handed    *)
(* to the detached delivery.                                               *)
(***************************************************************************)
sendSessionEvent(eventType, session) ==
  [type |-> eventType, checkout_session_id |-> session.id,
   status |-> session.status, session |-> session, order |-> NoOrder]

sendOrderEventWithoutOrder(eventType, checkoutSessionId, order) ==
  [type |-> eventType, checkout_session_id |-> checkoutSessionId,
   status |-> "created", session |-> NullState, order |-> NoOrder]

sendOrderEvent(eventType, checkoutSessionId, order) ==
  [type |-> eventType, checkout_session_id |-> checkoutSessionId,
   status |-> "created", session |-> NullState, order |-> order]

(***************************************************************************)
(* WebhookService.send (services/webhookService.ts): one task per call,    *)
(* split where it awaits fetch, response.text() and the delay.             *)
(***************************************************************************)
retryAttemptsPlusOne == 3 + 1

retryAttempts == 3

retryDelayMs == 1000

\* what one fetch comes to: <<status, body>> for a response, body telling
\* whether response.text(), awaited after the response, can be read, and
\* Threw when fetch rejects (network error, timeout)
Threw == <<0, FALSE>>

SendStatuses == {200, 204, 400, 404, 500, 503}

\* response.ok
ok(outcome) == outcome[1] >= 200 /\ outcome[1] <= 299

\* response.status >= 400 && response.status < 500
clientError(outcome) == outcome[1] >= 400 /\ outcome[1] < 500

\* the body of a response that is ok is not read
FetchOutcomes ==
  {Threw} \cup {<<status, TRUE>> : status \in SendStatuses}
          \cup {<<status, FALSE>> : status \in {st \in SendStatuses : ~ok(<<st, TRUE>>)}}

\* constructor configs: enabled or not, with or without a URL
WebhookConfigs ==
  {[enabled |-> e, url |-> u, secretKey |-> k, merchantName |-> "LocalMerchant"] :
     e \in BOOLEAN, u \in {"", "http://agent/webhook"},
     k \in {"local-dev-secret", "agent-webhook-secret"}}

\* no AGENT_WEBHOOK_URL in the environment
WebhookDisabled ==
  [enabled |-> FALSE, url |-> "", secretKey |-> "local-dev-secret",
   merchantName |-> "LocalMerchant"]

\* JSON.stringify(payload): the text of the payload
stringify(payload) == <<"json", payload>>

\* createHmac('sha256', key).update(message).digest('hex'): the digest is
\* determined by the key and the message, and differs when either differs
Hmac(key, message) == <<"hmac-sha256", key, message>>

signWithoutSecret(payload) == Hmac("", payload)

sign(payload) == Hmac(webhookConfig.secretKey, payload)

\* the request passed to fetch, built from the locals of send
fetchRequest(d) ==
  [body |-> d.payloadJson,
   webhookSignature |-> d.signature,
   merchantSignature |-> <<webhookConfig.merchantName, "-", d.signature>>,
   eventType |-> d.payload.type]

\* send up to its first await: it has returned false when the service is
\* disabled or has no URL, and otherwise waits for the fetch of attempt 1
send(payload) ==
  IF ~webhookConfig.enabled \/ webhookConfig.url = ""
  THEN [payload |-> payload, pc |-> "returned", attempt |-> 0,
        statuses |-> <<>>, delays |-> <<>>, result |-> FALSE,
        payloadJson |-> <<>>, signature |-> <<>>, sent |-> <<>>]
  ELSE LET d == [payload |-> payload, pc |-> "fetch", attempt |-> 1,
                 statuses |-> <<>>, delays |-> <<>>, result |-> FALSE,
                 payloadJson |-> stringify(payload),
                 signature |-> sign(stringify(payload)), sent |-> <<>>]
       IN [d EXCEPT !.sent = <<fetchRequest(d)>>]

delayMsConstant(attempt) == retryDelayMs

\* this.retryDelayMs * attempt
delayMs(attempt) == retryDelayMs * attempt

\* the catch block and the end of the loop body: the delay before the next
\* attempt, or the end of the loop after the last
afterAttempt(d) ==
  IF d.attempt < retryAttempts
  THEN [d EXCEPT !.pc = "delay", !.delays = Append(@, delayMs(d.attempt))]
  ELSE [d EXCEPT !.pc = "returned", !.attempt = d.attempt + 1]

\* the body of the for loop from the point where fetch has settled, up to
\* the return, the catch block or the await of response.text()
afterFetch(d, outcome) ==
  LET d1 == [d EXCEPT !.statuses = Append(@, outcome)]
  IN IF outcome = Threw THEN afterAttempt(d1)
     ELSE IF ok(outcome) THEN [d1 EXCEPT !.pc = "returned", !.result = TRUE]
     ELSE [d1 EXCEPT !.pc = "text"]

\* the body of the for loop from the point where response.text() has
\* settled; the response is the last of statuses
afterText(d) ==
  LET outcome == d.statuses[Len(d.statuses)]
  IN IF outcome[2] /\ clientError(outcome)
     THEN [d EXCEPT !.pc = "returned"]
     ELSE afterAttempt(d)

\* the sends pending share nothing with one another and step in any order
fetchSettles(i, outcome) ==
  /\ i \in 1..Len(deliveries)
  /\ deliveries[i].pc = "fetch"
  /\ deliveries' = [deliveries EXCEPT ![i] = afterFetch(@, outcome)]
  /\ UNCHANGED <<sessionHistoryTable, idempotencyTable, req, orders, nreq,
                 nextSessionId, webhookConfig, lastBody, sqs>>

textSettles(i) ==
  /\ i \in 1..Len(deliveries)
  /\ deliveries[i].pc = "text"
  /\ deliveries' = [deliveries EXCEPT ![i] = afterText(@)]
  /\ UNCHANGED <<sessionHistoryTable, idempotencyTable, req, orders, nreq,
                 nextSessionId, webhookConfig, lastBody, sqs>>

delayElapsed(i) ==
  /\ i \in 1..Len(deliveries)
  /\ deliveries[i].pc = "delay"
  /\ deliveries' = [deliveries EXCEPT ![i] =
                      [@ EXCEPT !.pc = "fetch", !.attempt = @ + 1,
                                !.sent = Append(@, fetchRequest(deliveries[i]))]]
  /\ UNCHANGED <<sessionHistoryTable, idempotencyTable, req, orders, nreq,
                 nextSessionId, webhookConfig, lastBody, sqs>>

\* the promise of send settles; its value is read by nobody
sendSettled(i) ==
  /\ i \in 1..Len(deliveries)
  /\ deliveries[i].pc = "returned"
  /\ deliveries' = SubSeq(deliveries, 1, i - 1) \o
                   SubSeq(deliveries, i + 1, Len(deliveries))
  /\ UNCHANGED <<sessionHistoryTable, idempotencyTable, req, orders, nreq,
                 nextSessionId, webhookConfig, lastBody, sqs>>

\* a call of webhookService.send while no other send is pending
sendCalled(payload) ==
  /\ deliveries = <<>>
  /\ deliveries' = <<send(payload)>>
  /\ UNCHANGED <<sessionHistoryTable, idempotencyTable, req, orders, nreq,
                 nextSessionId, webhookConfig, lastBody, sqs>>

\* the sends a handler leaves pending when it calls them without await
Detached(events) ==
  SelectSeq([i \in 1..Len(events) |-> send(events[i])],
            LAMBDA d : d.pc # "returned")

(***************************************************************************)
(* The queue-driven webhook sender (handler and sendWebhook): one          *)
(* invocation per batch of queue records, split where the deliveries of    *)
(* the records await fetch and the body of the response, and the           *)
(* redelivery of a batch whose invocation failed.                          *)
(***************************************************************************)
\* bounds: records per batch, and times a batch is handed to the handler
\* before the queue gives it up
MaxBatch == 2
MaxReceives == 2

\* process.env of the function
QueueEnv ==
  [WEBHOOK_URL |-> "http://agent/webhook",
   WEBHOOK_SECRET_KEY |-> "agent-webhook-secret",
   MERCHANT_NAME |-> "LocalMerchant"]

QueueEnvWithoutUrl == [QueueEnv EXCEPT !.WEBHOOK_URL = ""]

NoInvocation ==
  [env |-> QueueEnv, pc |-> "idle", records |-> <<>>, receives |-> 0]

\* record.body: the JSON text of a webhook event, the JSON text of an
\* object without a data member or with data null, or text that is not
\* JSON. The value of a data member goes with its kind: <<"object", its
\* members>>, or <<"null">>
OrderCreatedEvent ==
  [type |-> "order_created",
   data |-> <<"object", [checkout_session_id |-> 1]>>]
EventWithoutData == [type |-> "order_created"]
EventWithNullData == [type |-> "order_created", data |-> <<"null">>]
QueueBodies ==
  { stringify(OrderCreatedEvent), stringify(EventWithoutData),
    stringify(EventWithNullData), <<"text", "not json">> }

\* JSON.parse(record.body) returns
parses(body) == body[1] = "json"

\* JSON.parse(record.body)
parse(body) == body[2]

\* webhookEvent.data.checkout_session_id can be read: the data member of
\* the parsed value is neither undefined nor null (the read throws a
\* TypeError otherwise, as it does for a parsed value that is null or has
\* no members)
hasData(webhookEvent) ==
  /\ "data" \in DOMAIN webhookEvent
  /\ webhookEvent.data[1] # "null"

RECURSIVE SeqsUpTo(_, _)
SeqsUpTo(S, n) ==
  IF n = 0 THEN {<<>>}
  ELSE SeqsUpTo(S, n - 1) \cup
       {Append(q, x) : q \in {r \in SeqsUpTo(S, n - 1) : Len(r) = n - 1}, x \in S}

\* event.Records of one invocation
Batches == SeqsUpTo(QueueBodies, MaxBatch) \ {<<>>}

signPayload(payload, secretKey) == Hmac(secretKey, payload)

\* what the fetch of sendWebhook comes to: it rejects, or resolves to
\* <<status, body>>. The body of a 2xx answer is what response.json()
\* makes of it: an object, another JSON value that is not null (5, "ok"),
\* null, or a rejection when the body is not JSON; the body of another
\* answer is text that response.text() reads or fails to read
FetchRejected == <<0, "">>
QueueOutcomes ==
  { FetchRejected,
    <<200, "object">>, <<200, "scalar">>, <<200, "null">>,
    <<200, "unparsable">>, <<500, "text">>, <<404, "unreadable">> }

\* the async function of one record up to its first await: JSON.parse and
\* the read of webhookEvent.data.checkout_session_id, then sendWebhook up
\* to its fetch; fetches and accepted count, over all invocations, the
\* fetches made for the record and the 2xx answers to them
startRecord(env, rec) ==
  IF parses(rec.body) /\ hasData(parse(rec.body))
  THEN [rec EXCEPT
          !.pc = "fetch",
          !.fetches = @ + 1,
          !.request =
             [body |-> stringify(parse(rec.body)),
              merchantSignature |->
                <<env.MERCHANT_NAME, "-",
                  signPayload(stringify(parse(rec.body)),
                              env.WEBHOOK_SECRET_KEY)>>]]
  ELSE [rec EXCEPT !.pc = "rejected"]

NoRequest == [body |-> <<>>, merchantSignature |-> <<>>]

\* response holds the answer to the fetch while its body is awaited
NewRecord(body) ==
  [body |-> body, pc |-> "received", fetches |-> 0, accepted |-> 0,
   request |-> NoRequest, response |-> FetchRejected]

missingEnv(env) ==
  env.WEBHOOK_URL = "" \/ env.WEBHOOK_SECRET_KEY = "" \/ env.MERCHANT_NAME = ""

\* handler up to the await of Promise.allSettled
invoke(inv, records) ==
  IF missingEnv(inv.env)
  THEN [inv EXCEPT !.pc = "failed", !.records = records, !.receives = @ + 1]
  ELSE [inv EXCEPT !.pc = "running", !.receives = @ + 1,
                   !.records = [i \in 1..Len(records) |->
                                  startRecord(inv.env, records[i])]]

\* sendWebhook from the point where fetch has settled, up to the catch
\* block or the await of response.text() or response.json()
afterQueueFetch(rec, outcome) ==
  IF outcome = FetchRejected THEN [rec EXCEPT !.pc = "rejected"]
  ELSE [rec EXCEPT !.pc = "body", !.response = outcome,
                   !.accepted = IF ok(outcome) THEN @ + 1 ELSE @]

\* sendWebhook from the point where response.text() or response.json() has
\* settled, and the rest of the async function of the record: an answer
\* that is not ok is thrown as an Error, response.json() rejects for a
\* body that is not JSON, and response.received throws for null
afterQueueBody(rec) ==
  IF ok(rec.response) /\ rec.response[2] \in {"object", "scalar"}
  THEN [rec EXCEPT !.pc = "fulfilled", !.response = FetchRejected]
  ELSE [rec EXCEPT !.pc = "rejected", !.response = FetchRejected]

failuresNone(records) == {}

\* results.filter((r) => r.status === 'rejected')
failures(records) == {i \in 1..Len(records) : records[i].pc = "rejected"}

\* the queue hands a batch to the function
handler(batch) ==
  /\ sqs.pc = "idle"
  /\ sqs' = invoke(sqs, [i \in 1..Len(batch) |-> NewRecord(batch[i])])
  /\ UNCHANGED <<sessionHistoryTable, idempotencyTable, req, orders, nreq,
                 nextSessionId, webhookConfig, deliveries, lastBody>>

queueFetchSettles(i, outcome) ==
  /\ sqs.pc = "running"
  /\ i \in 1..Len(sqs.records)
  /\ sqs.records[i].pc = "fetch"
  /\ sqs' = [sqs EXCEPT !.records[i] = afterQueueFetch(@, outcome)]
  /\ UNCHANGED <<sessionHistoryTable, idempotencyTable, req, orders, nreq,
                 nextSessionId, webhookConfig, deliveries, lastBody>>

queueBodySettles(i) ==
  /\ sqs.pc = "running"
  /\ i \in 1..Len(sqs.records)
  /\ sqs.records[i].pc = "body"
  /\ sqs' = [sqs EXCEPT !.records[i] = afterQueueBody(@)]
  /\ UNCHANGED <<sessionHistoryTable, idempotencyTable, req, orders, nreq,
                 nextSessionId, webhookConfig, deliveries, lastBody>>

\* Promise.allSettled has resolved: the handler throws or returns
handlerSettles ==
  /\ sqs.pc = "running"
  /\ \A i \in 1..Len(sqs.records) : sqs.records[i].pc \in {"fulfilled", "rejected"}
  /\ sqs' = [sqs EXCEPT !.pc = IF failures(sqs.records) # {}
                                THEN "failed" ELSE "succeeded"]
  /\ UNCHANGED <<sessionHistoryTable, idempotencyTable, req, orders, nreq,
                 nextSessionId, webhookConfig, deliveries, lastBody>>

\* the invocation failed, none of its messages was deleted, and the queue
\* hands the same batch to the function again
redelivered ==
  /\ sqs.pc = "failed"
  /\ sqs.receives < MaxReceives
  /\ sqs' = invoke(sqs, sqs.records)
  /\ UNCHANGED <<sessionHistoryTable, idempotencyTable, req, orders, nreq,
                 nextSessionId, webhookConfig, deliveries, lastBody>>

(***************************************************************************)
(* controllers/checkoutController.ts                                       *)
(***************************************************************************)
Begin(op, sid, key, body) ==
  [IdleRequest EXCEPT !.pc = "begin", !.op = op, !.sid = sid, !.key = key,
                      !.body = body]

\* what the task read from the store: the latest version and its status,
\* and whether pastResponses holds the key of the request
Seen(r, history) ==
  [r EXCEPT !.sid = history.sessionId,
            !.seenVersion = history.latestVersion,
            !.seenStatus = latest(history).status,
            !.keyFound = pastResponse(history.items, r.key) # NullState]

\* the request body is not used after the aggregate has been mutated; only
\* whether payment_data was present is kept with the task
Consumed(body) == [NoBody EXCEPT !.payment_data = body.payment_data]

Respond(r, code, type, errcode, body) ==
  [r EXCEPT !.pc = "done", !.body = Consumed(r.body),
            !.res = [code |-> code, type |-> type, errcode |-> errcode,
                     body |-> body]]

ToSave(r, session, version, reason) ==
  [r EXCEPT !.pc = "save", !.body = Consumed(r.body), !.session = session,
            !.version = version, !.reason = reason]

tryGetExistingResponseNever(history, key) == FALSE

tryGetExistingResponse(history, key) ==
  /\ key # NoKey
  /\ pastResponse(history.items, key) # NullState

Replayed(r, history) ==
  Respond([r EXCEPT !.replay = TRUE], 201, "", "",
          pastResponse(history.items, r.key))

hasNoVersionsNever(history) == FALSE

\* sessionHistory.latestVersion == 0
hasNoVersions(history) == history.latestVersion = 0

NotFound(r) == Respond(r, 404, "invalid_request", "resource_not_found", NullState)

\* what the merchant capability answers to getMerchantData: it throws, or
\* returns line items with one of the option lists; NotCalled when the
\* request has no items and the capability is not called
MerchantThrows == [ok |-> FALSE, options |-> <<>>]
NotCalled == [ok |-> TRUE, options |-> <<>>]
\* RealMerchantService.getMerchantData: buildLineItems throws for an item
\* whose id the catalog does not hold, as it does for every item id of the
\* requests; for an empty cart the options are the default ones without an
\* address, and with an address the flat rates of a cart of weight 0
RealMerchantOptions(items, details) ==
  IF items # <<>> THEN {}
  ELSE IF HasAddress(details) THEN {EmptyCartShippingOptions}
  ELSE {DefaultShippingOptions}

\* the option lists getMerchantData(items, fulfillmentDetails) may return
ReturnedOptionLists(items, details) ==
  {o \in OptionLists :
     \/ o \in {<<>>, StubShippingOptions}
     \/ o \in RealMerchantOptions(items, details)}

MerchantOutcomes(body) ==
  IF body.items.given
  THEN {MerchantThrows} \cup
       {[ok |-> TRUE, options |-> o] :
          o \in ReturnedOptionLists(body.items.value, body.fulfillment_details)}
  ELSE {NotCalled}

getMerchantDataErrorSwallowed(body, merchant) == FALSE

\* the awaited getMerchantData rejects and control passes to the catch block
getMerchantDataThrows(body, merchant) == body.items.given /\ ~merchant.ok

\* body.items ? await merchantService.getMerchantData(...) : undefined,
\* as the task records it: whether the capability was called and whether
\* the call failed
CallMerchant(r, merchant) ==
  IF r.body.items.given
  THEN [r EXCEPT !.merchantCalls = 1,
                 !.failed = IF merchant.ok THEN "" ELSE "getMerchantData"]
  ELSE r

MerchantDataFor(body, merchant) ==
  IF body.items.given
  THEN Given(getMerchantData(body.items.value, merchant.options))
  ELSE Absent

\* createCheckoutSession, from the session history to the call of saveSession
createFrom(r0, history, merchant) ==
  LET r == Seen(r0, history)
  IN IF tryGetExistingResponse(history, r.key) THEN Replayed(r, history)
     ELSE IF getMerchantDataThrows(r.body, merchant)
     THEN Respond(CallMerchant(r, merchant), 500, "invalid_request",
                  "session_creation_failed", NullState)
     ELSE ToSave(CallMerchant(r, merchant),
                 update(latest(history), MerchantDataFor(r.body, merchant),
                        r.body.buyer, r.body.fulfillment_details, Absent),
                 nextVersion(history), "created")

\* a response is sent, and its task ended, before any other task takes
\* its next step: finish touches nothing but the ended task, so it commutes
\* with every step of the other tasks and no interleaving is lost
NoneDone == \A v \in Workers : req[v].pc # "done"

\* a new request is taken by the first idle task
CanStart(w) ==
  /\ NoneDone
  /\ req[w].pc = "idle"
  /\ \A v \in Workers : v < w => req[v].pc # "idle"
  /\ nreq < MaxRequests
  /\ Len(deliveries) < MaxPending

PendingInserts == Cardinality({w \in Workers : req[w].pc = "setSessionId"})

\* createCheckoutSession up to the answer of the GetCommand of
\* getSessionIdByIdempotencyKey
createCheckoutSessionWith(w, header, body) ==
  /\ CanStart(w)
  /\ LET key == propagateHeaders(header, nreq + 1)
         existing == getSessionIdByIdempotencyKey(key)
     IN IF existing # 0
        THEN req' = [req EXCEPT ![w] =
                       [Begin("create", 0, key, body)
                          EXCEPT !.existing = existing,
                                 !.pc = "getSessionHistory"]]
        ELSE /\ nextSessionId + PendingInserts <= MaxSessions
             /\ req' = [req EXCEPT ![w] =
                          [Begin("create", 0, key, body) EXCEPT !.pc = "setSessionId"]]
  /\ nreq' = nreq + 1
  /\ UNCHANGED <<sessionHistoryTable, idempotencyTable, orders, nextSessionId>>
  /\ UNCHANGED webhookVars

createCheckoutSession(w, header, body) ==
  /\ createCheckoutSessionWith(w, header, body)
  /\ UNCHANGED <<lastBody, sqs>>

\* getSessionByIdempotencyKey after the key was found: getSessionHistory of
\* the session it is mapped to, then the rest of createCheckoutSession
createGetSessionHistoryWith(w, merchant) ==
  /\ NoneDone
  /\ req[w].pc = "getSessionHistory"
  /\ req' = [req EXCEPT ![w] =
               createFrom(req[w], getSessionHistory(req[w].existing), merchant)]
  /\ UNCHANGED <<sessionHistoryTable, idempotencyTable, orders, nreq,
                 nextSessionId>>
  /\ UNCHANGED webhookVars

createGetSessionHistory(w) ==
  /\ \E merchant \in MerchantOutcomes(req[w].body) :
       createGetSessionHistoryWith(w, merchant)
  /\ UNCHANGED <<lastBody, sqs>>

\* getSessionByIdempotencyKey after the key was not found: setSessionId,
\* then the rest of createCheckoutSession on an empty SessionHistory
createSetSessionIdWith(w, merchant) ==
  /\ NoneDone
  /\ req[w].pc = "setSessionId"
  /\ IF setSessionIdCondition(req[w].key)
     THEN /\ idempotencyTable' = putIdempotencyItem(
               [IdempotencyKey |-> req[w].key, SessionId |-> nextSessionId])
          /\ nextSessionId' = nextSessionId + 1
          /\ req' = [req EXCEPT ![w] =
                       createFrom(req[w],
                                  [sessionId |-> nextSessionId, items |-> {},
                                   latestVersion |-> 0],
                                  merchant)]
     ELSE /\ req' = [req EXCEPT ![w] =
                       Respond([req[w] EXCEPT !.failed = "setSessionId"], 500,
                               "invalid_request", "session_creation_failed",
                               NullState)]
          /\ UNCHANGED <<idempotencyTable, nextSessionId>>
  /\ UNCHANGED <<sessionHistoryTable, orders, nreq>>
  /\ UNCHANGED webhookVars

createSetSessionId(w) ==
  /\ \E merchant \in MerchantOutcomes(req[w].body) :
       createSetSessionIdWith(w, merchant)
  /\ UNCHANGED <<lastBody, sqs>>

getCheckoutSession(w, sid) ==
  /\ CanStart(w)
  /\ LET history == getSessionHistory(sid)
         r == Seen(Begin("get", sid, NoKey, NoBody), history)
     IN req' = [req EXCEPT ![w] =
                  IF hasNoVersions(history) THEN NotFound(r)
                  ELSE Respond(r, 201, "", "", latest(history))]
  /\ nreq' = nreq + 1
  /\ UNCHANGED <<sessionHistoryTable, idempotencyTable, orders, nextSessionId>>
  /\ UNCHANGED <<webhookConfig, deliveries, lastBody, sqs>>

updateCheckoutSessionWith(w, sid, header, body, merchant) ==
  /\ CanStart(w)
  /\ LET key == propagateHeaders(header, nreq + 1)
         history == getSessionHistory(sid)
         r == Seen(Begin("update", sid, key, body), history)
     IN req' = [req EXCEPT ![w] =
          IF tryGetExistingResponse(history, key) THEN Replayed(r, history)
          ELSE IF hasNoVersions(history) THEN NotFound(r)
          ELSE IF getMerchantDataThrows(body, merchant)
          THEN Respond(CallMerchant(r, merchant), 500, "invalid_request",
                       "session_update_failed", NullState)
          ELSE ToSave(CallMerchant(r, merchant),
                      update(latest(history), MerchantDataFor(body, merchant),
                                body.buyer, body.fulfillment_details,
                                body.selected_fulfillment_options),
                      nextVersion(history), "updated")]
  /\ nreq' = nreq + 1
  /\ UNCHANGED <<sessionHistoryTable, idempotencyTable, orders, nextSessionId>>
  /\ UNCHANGED webhookVars

updateCheckoutSession(w, sid, header, body) ==
  /\ \E merchant \in MerchantOutcomes(body) :
       updateCheckoutSessionWith(w, sid, header, body, merchant)
  /\ UNCHANGED <<lastBody, sqs>>

NewOrder(sid) == [id |-> Cardinality(orders) + 1, checkout_session_id |-> sid]

completeCheckoutSession(w, sid, header, body, orderOk) ==
  /\ CanStart(w)
  /\ LET key == propagateHeaders(header, nreq + 1)
         r0 == Begin("complete", sid, key, body)
         history == getSessionHistory(sid)
         r == Seen(r0, history)
         session == latest(history)
         withBuyer == IF body.buyer # Undefined
                      THEN setBuyer(session, body.buyer) ELSE session
         order == createOrder(NewOrder(sid).id)
     IN IF ~body.payment_data
        THEN /\ req' = [req EXCEPT ![w] =
                          Respond(r0, 400, "invalid_request",
                                  "missing_payment_data", NullState)]
             /\ UNCHANGED orders
        ELSE IF tryGetExistingResponse(history, key)
        THEN req' = [req EXCEPT ![w] = Replayed(r, history)] /\ UNCHANGED orders
        ELSE IF hasNoVersions(history)
        THEN req' = [req EXCEPT ![w] = NotFound(r)] /\ UNCHANGED orders
        ELSE IF ~canBeCompleted(session)
        THEN /\ req' = [req EXCEPT ![w] =
                          Respond(r, 400, "invalid_request",
                                  "already_completed", NullState)]
             /\ UNCHANGED orders
        ELSE IF ~orderOk
        THEN /\ req' = [req EXCEPT ![w] =
                          Respond([r EXCEPT !.failed = "createOrder"], 500,
                                  "processing_error", "completion_failed",
                                  NullState)]
             /\ UNCHANGED orders
        ELSE /\ orders' = orders \cup {NewOrder(sid)}
             /\ req' = [req EXCEPT ![w] =
                          ToSave([r EXCEPT !.ordersCreated = 1],
                                 complete(withBuyer, order),
                                 nextVersion(history), "completed")]
  /\ nreq' = nreq + 1
  /\ UNCHANGED <<sessionHistoryTable, idempotencyTable, nextSessionId>>
  /\ UNCHANGED <<webhookConfig, deliveries, lastBody, sqs>>

\* the condition of line 236 reads the method session.canBeCanceled without
\* calling it; a function object is truthy for every session
canBeCanceledReference(session) == TRUE

cancelCheckoutSession(w, sid, header) ==
  /\ CanStart(w)
  /\ LET key == propagateHeaders(header, nreq + 1)
         history == getSessionHistory(sid)
         r == Seen(Begin("cancel", sid, key, NoBody), history)
         session == latest(history)
     IN req' = [req EXCEPT ![w] =
          IF hasNoVersions(history) THEN NotFound(r)
          ELSE IF ~canBeCanceledReference(session)
          THEN Respond(r, 400, "invalid_request", "cancellation_not_allowed",
                       NullState)
          ELSE ToSave(r, cancel(session), nextVersion(history), "canceled")]
  /\ nreq' = nreq + 1
  /\ UNCHANGED <<sessionHistoryTable, idempotencyTable, orders, nextSessionId>>
  /\ UNCHANGED <<webhookConfig, deliveries, lastBody, sqs>>

EventsAfterSaveNone(r) == <<>>

EventsAfterSave(r) ==
  CASE r.op = "create" -> <<sendSessionEvent("checkout.session.created", r.session)>>
    [] r.op = "update" -> <<sendSessionEvent("checkout.session.updated", r.session)>>
    [] r.op = "complete" ->
         <<sendSessionEvent("checkout.session.completed", r.session),
           sendOrderEvent("order.created", r.session.id, r.session.order)>>
    [] r.op = "cancel" -> <<sendSessionEvent("checkout.session.cancelled", r.session)>>

\* a send that has returned false before the response is built
SkippedSend(r) ==
  \E i \in 1..Len(r.events) :
    send(r.events[i]).pc = "returned" /\ ~send(r.events[i]).result

RespondAfterDispatchAwaited(r) ==
  IF SkippedSend(r)
  THEN Respond(r, 500, "processing_error", "webhook_failed", NullState)
  ELSE Respond(r, 201, "", "", r.session)

\* webhookService.send...(...).catch(console.error); res.status(201).json(state)
RespondAfterDispatch(r) == Respond(r, 201, "", "", r.session)

SaveFailureIgnored(r) == Respond(r, 201, "", "", r.session)

SaveFailure(r) ==
  CASE r.op = "create" ->
         Respond(r, 500, "invalid_request", "session_creation_failed", NullState)
    [] r.op = "update" ->
         Respond(r, 500, "invalid_request", "session_update_failed", NullState)
    [] r.op = "complete" ->
         Respond(r, 500, "processing_error", "completion_failed", NullState)
    [] r.op = "cancel" ->
         Respond(r, 500, "processing_error", "cancellation_failed", NullState)

\* repository.saveSession and the rest of the handler that called it
saveSession(w) ==
  /\ NoneDone
  /\ req[w].pc = "save"
  /\ LET r == [req[w] EXCEPT !.saves = @ + 1]
     IN IF saveSessionCondition(r.session.id, r.version)
        THEN /\ sessionHistoryTable' = putSessionItem(
                  saveSessionItem(r.session, r.version, r.reason, r.key))
             /\ deliveries' = deliveries \o Detached(EventsAfterSave(r))
             /\ req' = [req EXCEPT ![w] =
                          RespondAfterDispatch(
                            [r EXCEPT !.saved = r.version,
                                      !.events = EventsAfterSave(r)])]
        ELSE /\ req' = [req EXCEPT ![w] = SaveFailure(r)]
             /\ UNCHANGED <<sessionHistoryTable, deliveries>>
  /\ UNCHANGED <<idempotencyTable, orders, nreq, nextSessionId, webhookConfig,
                 lastBody, sqs>>

\* the response has been sent: the task ends and its locals are dropped
finish(w) ==
  /\ req[w].pc = "done"
  /\ req' = [req EXCEPT ![w] = IdleRequest]
  /\ UNCHANGED <<sessionHistoryTable, idempotencyTable, orders, nreq, nextSessionId>>
  /\ UNCHANGED <<webhookConfig, deliveries, lastBody, sqs>>

Stores ==
  /\ sessionHistoryTable = {}
  /\ idempotencyTable = {}
  /\ req = [w \in Workers |-> IdleRequest]
  /\ orders = {}
  /\ nreq = 0
  /\ nextSessionId = 1
  /\ deliveries = <<>>
  /\ lastBody = NoBody
  /\ sqs = NoInvocation

\* the gateway started without AGENT_WEBHOOK_URL
Init == Stores /\ webhookConfig = WebhookDisabled

Next ==
  \/ \E w \in Workers, header \in ClientKeys, body \in CreateBodies :
       createCheckoutSession(w, header, body)
  \/ \E w \in Workers : createSetSessionId(w)
  \/ \E w \in Workers : createGetSessionHistory(w)
  \/ \E w \in Workers, sid \in SessionIds : getCheckoutSession(w, sid)
  \/ \E w \in Workers, sid \in SessionIds, header \in Headers,
        body \in UpdateBodies :
       updateCheckoutSession(w, sid, header, body)
  \/ \E w \in Workers, sid \in SessionIds, header \in Headers,
        body \in CompleteBodies, orderOk \in BOOLEAN :
       completeCheckoutSession(w, sid, header, body, orderOk)
  \/ \E w \in Workers, sid \in SessionIds, header \in Headers :
       cancelCheckoutSession(w, sid, header)
  \/ \E w \in Workers : saveSession(w)
  \/ \E w \in Workers : finish(w)

\* one session, created under one client key, and every operation on it
Spec == Init /\ [][Next]_vars

NextCreate ==
  \/ \E w \in Workers, header \in Headers :
       createCheckoutSession(w, header, ReadyBody)
  \/ \E w \in Workers : createSetSessionId(w)
  \/ \E w \in Workers : createGetSessionHistory(w)
  \/ \E w \in Workers, sid \in SessionIds : getCheckoutSession(w, sid)
  \/ \E w \in Workers : saveSession(w)
  \/ \E w \in Workers : finish(w)

\* create requests under any key or none, racing on the idempotency table
SpecCreate == Init /\ [][NextCreate]_vars

\* events handed to WebhookService.send
SamplePayloads ==
  { sendSessionEvent("checkout.session.created", NewSession(1)),
    sendSessionEvent("checkout.session.cancelled", cancel(NewSession(1))),
    sendOrderEvent("order.created", 1, createOrder(1)) }

InitSend == Stores /\ webhookConfig \in WebhookConfigs

NextSend ==
  \/ \E payload \in SamplePayloads : sendCalled(payload)
  \/ \E i \in DOMAIN deliveries, outcome \in FetchOutcomes : fetchSettles(i, outcome)
  \/ \E i \in DOMAIN deliveries : textSettles(i)
  \/ \E i \in DOMAIN deliveries : delayElapsed(i)
  \/ \E i \in DOMAIN deliveries : sendSettled(i)

\* WebhookService.send on its own, one event at a time, under every config
\* and every sequence of fetch outcomes
SpecSend == InitSend /\ [][NextSend]_vars

\* a pending fetch settles (with a response or an error), the body of a
\* response arrives or fails, and a delay timer fires
SpecSendLive ==
  /\ SpecSend
  /\ WF_vars(\E i \in DOMAIN deliveries, outcome \in FetchOutcomes : fetchSettles(i, outcome))
  /\ WF_vars(\E i \in DOMAIN deliveries : textSettles(i))
  /\ WF_vars(\E i \in DOMAIN deliveries : delayElapsed(i))

WebhookEnabled ==
  [enabled |-> TRUE, url |-> "http://agent/webhook",
   secretKey |-> "local-dev-secret", merchantName |-> "LocalMerchant"]

InitWebhook == Stores /\ webhookConfig \in {WebhookDisabled, WebhookEnabled}

\* fetch outcomes of the agent endpoint: delivered, refused, unreachable
AgentOutcomes == {<<200, TRUE>>, <<404, TRUE>>, Threw}

\* the requests are handled one after another by the first task, while
\* the deliveries they detached go on in any order
NextWebhook ==
  \/ \E header \in ClientKeys : createCheckoutSession(1, header, ReadyBody)
  \/ createSetSessionId(1)
  \/ createGetSessionHistory(1)
  \/ \E sid \in SessionIds : updateCheckoutSession(1, sid, NoKey, SelectBody)
  \/ \E sid \in SessionIds, orderOk \in BOOLEAN :
       completeCheckoutSession(1, sid, NoKey, PayBody, orderOk)
  \/ \E sid \in SessionIds : cancelCheckoutSession(1, sid, NoKey)
  \/ saveSession(1)
  \/ finish(1)
  \/ \E i \in DOMAIN deliveries, outcome \in AgentOutcomes : fetchSettles(i, outcome)
  \/ \E i \in DOMAIN deliveries : textSettles(i)
  \/ \E i \in DOMAIN deliveries : delayElapsed(i)
  \/ \E i \in DOMAIN deliveries : sendSettled(i)

\* the handlers together with the deliveries they detach
SpecWebhook == InitWebhook /\ [][NextWebhook]_vars

NextRace ==
  \/ \E w \in Workers, header \in ClientKeys :
       createCheckoutSession(w, header, ReadyBody)
  \/ \E w \in Workers : createSetSessionId(w)
  \/ \E w \in Workers : createGetSessionHistory(w)
  \/ \E w \in Workers, sid \in SessionIds : getCheckoutSession(w, sid)
  \/ \E w \in Workers, sid \in SessionIds :
       updateCheckoutSession(w, sid, NoKey, SelectBody)
  \/ \E w \in Workers, sid \in SessionIds, orderOk \in BOOLEAN :
       completeCheckoutSession(w, sid, NoKey, PayBody, orderOk)
  \/ \E w \in Workers, sid \in SessionIds : cancelCheckoutSession(w, sid, NoKey)
  \/ \E w \in Workers : saveSession(w)
  \/ \E w \in Workers : finish(w)

\* two tasks at a time on one session: writers of every operation racing
\* for the same version number, and readers between them
SpecRace == Init /\ [][NextRace]_vars

\* create: no items, one item with buyer and address, two items with an
\* address
CartCreateBodies ==
  { Body(Absent, BuyerJ, Undefined, Absent, FALSE),
    ReadyBody,
    Body(Given(<<Sku1, Sku2Twice>>), Undefined, Addr1, Absent, FALSE) }

\* update: new items, no items left without and with an address, two
\* selections, a buyer alone, items and a selection together
CartUpdateBodies ==
  { Body(Given(<<Sku2Twice>>), Undefined, Undefined, Absent, FALSE),
    Body(Given(<<>>), Undefined, Undefined, Absent, FALSE),
    Body(Given(<<>>), Undefined, Addr1, Absent, FALSE),
    Body(Absent, Undefined, Undefined,
         Given(<<Select("ship_standard"), Select("ship_expedited")>>), FALSE),
    Body(Absent, Undefined, Undefined,
         Given(<<Select("no_such_option"), Select("ship_expedited")>>),
         FALSE),
    Body(Absent, BuyerJ, Undefined, Absent, FALSE),
    Body(Given(<<Sku1>>), Undefined, Undefined,
         Given(<<Select("ship_expedited")>>), FALSE),
    Body(Given(<<Sku1>>), Undefined, Undefined,
         Given(<<Select("no_such_option")>>), FALSE) }

createCheckoutSessionCart(header, body) ==
  /\ createCheckoutSessionWith(1, header, body)
  /\ lastBody' = body
  /\ UNCHANGED sqs

updateCheckoutSessionCart(sid, body) ==
  /\ \E merchant \in MerchantOutcomes(body) :
       updateCheckoutSessionWith(1, sid, NoKey, body, merchant)
  /\ lastBody' = body
  /\ UNCHANGED sqs

NextCart ==
  \/ \E header \in ClientKeys, body \in CartCreateBodies :
       createCheckoutSessionCart(header, body)
  \/ createSetSessionId(1)
  \/ createGetSessionHistory(1)
  \/ \E sid \in SessionIds, body \in CartUpdateBodies :
       updateCheckoutSessionCart(sid, body)
  \/ saveSession(1)
  \/ finish(1)

\* one client that creates a session and updates it, one request after
\* another, changing the items, the address and the selection
SpecCart == Init /\ [][NextCart]_vars

\* the function deployed with or without WEBHOOK_URL; the gateway's tables
\* play no part
InitQueue ==
  /\ sessionHistoryTable = {}
  /\ idempotencyTable = {}
  /\ req = [w \in Workers |-> IdleRequest]
  /\ orders = {}
  /\ nreq = 0
  /\ nextSessionId = 1
  /\ deliveries = <<>>
  /\ lastBody = NoBody
  /\ webhookConfig = WebhookDisabled
  /\ sqs \in {NoInvocation, [NoInvocation EXCEPT !.env = QueueEnvWithoutUrl]}

NextQueue ==
  \/ \E batch \in Batches : handler(batch)
  \/ \E i \in 1..MaxBatch, outcome \in QueueOutcomes : queueFetchSettles(i, outcome)
  \/ \E i \in 1..MaxBatch : queueBodySettles(i)
  \/ handlerSettles
  \/ redelivered

\* the queue-driven sender on one batch, under every sequence of fetch
\* outcomes
SpecQueue == InitQueue /\ [][NextQueue]_vars

(***************************************************************************)
(* Properties.                                                             *)
(***************************************************************************)
StoredSessions == {it.SessionId : it \in sessionHistoryTable}

Done(w) == req[w].pc = "done"

\* the task's saveSession failed on its ConditionExpression
LostAppend(w) == Done(w) /\ req[w].saves > 0 /\ req[w].saved = 0

\* C1: the version numbers stored for a session are exactly 1..n, without
\* gap or repeat, whatever the interleaving of the requests
C1_VersionsContiguous ==
  \A sid \in StoredSessions :
    {it.Version : it \in SessionItems(sid)} = 1..Cardinality(SessionItems(sid))

\* two writers raced for version 2: one stored it, the other lost
C1_Witness ==
  \E w \in Workers :
    /\ LostAppend(w)
    /\ req[w].version = 2
    /\ Cardinality(SessionItems(req[w].sid)) = 2

\* C2: once a version of a session is completed (canceled), every later
\* version of that session has the same status
C2_TerminalStatusKept ==
  \A a \in sessionHistoryTable, b \in sessionHistoryTable :
    (/\ a.SessionId = b.SessionId
     /\ a.Version < b.Version
     /\ a.Data.status \in {"completed", "canceled"})
    => b.Data.status = a.Data.status

\* a completed version followed by a version that a cancel appended, and a
\* completed version followed by one that an update appended
C2_Witness ==
  \E a \in sessionHistoryTable, b \in sessionHistoryTable :
    /\ a.SessionId = b.SessionId
    /\ a.Version < b.Version
    /\ a.Data.status = "completed"
    /\ b.Reason \in {"canceled", "updated"}

FirstWithKey(sid, key) ==
  CHOOSE it \in SessionItems(sid) :
    /\ it.IdempotencyKey = key
    /\ \A o \in SessionItems(sid) :
         o.IdempotencyKey = key => it.Version <= o.Version

\* C3: a create or update answered by replay returns the output of the
\* request that first used the key on that session, and appends nothing
C3_ReplayReturnsFirstOutput ==
  \A w \in Workers :
    (Done(w) /\ req[w].op \in {"create", "update"} /\ req[w].replay)
    => /\ req[w].res.body = FirstWithKey(req[w].sid, req[w].key).Data
       /\ req[w].saves = 0

\* C4: a key of the idempotency table keeps the session id it was first
\* given, and every create that succeeds returns the session id of its key
C4_SuccessfulCreateReturnsMappedId ==
  \A w \in Workers :
    (Done(w) /\ req[w].op = "create" /\ req[w].res.code = 201)
    => [IdempotencyKey |-> req[w].key, SessionId |-> req[w].res.body.id]
         \in idempotencyTable

C4_OneSessionIdPerKey ==
  /\ [] C4_SuccessfulCreateReturnsMappedId
  /\ [][\A m \in idempotencyTable : m \in idempotencyTable']_vars

\* a create found the mapping that a failed create with the same key had
\* left behind, and appended version 1 of that session
C4_Witness ==
  \E w \in Workers :
    /\ Done(w) /\ req[w].op = "create" /\ req[w].res.code = 201
    /\ req[w].existing # 0
    /\ req[w].saved = 1

\* C5: a request whose append lost the race for version N does not end
\* after that one attempt: it re-reads and appends again
C5_ConflictIsRetried ==
  \A w \in Workers : LostAppend(w) => req[w].saves > 1

\* C6: the order capability creates at most one order per session
C6_OneOrderPerSession ==
  \A sid \in SessionIds :
    Cardinality({o \in orders : o.checkout_session_id = sid}) <= 1

\* C7: a version that turns a session completed follows a version with
\* status ready_for_payment and carries an order reference
C7_CompletedOnlyFromReady ==
  \A a \in sessionHistoryTable, b \in sessionHistoryTable :
    (/\ a.SessionId = b.SessionId
     /\ b.Version = a.Version + 1
     /\ b.Data.status = "completed"
     /\ a.Data.status # "completed")
    => /\ a.Data.status = "ready_for_payment"
       /\ b.Data.order.id # 0
       /\ b.Data.order.permalink_url # 0

C7_Witness ==
  \E a \in sessionHistoryTable, b \in sessionHistoryTable :
    /\ a.SessionId = b.SessionId
    /\ b.Version = a.Version + 1
    /\ b.Data.status = "completed"
    /\ a.Data.status = "ready_for_payment"

C8_Conditions(data) ==
  /\ data.line_items # <<>>
  /\ data.fulfillment_options # <<>>
  /\ data.selected_fulfillment_options # <<>>
  /\ data.fulfillment_details \notin {Undefined, NoAddress}
  /\ data.buyer # Undefined

\* C8: a stored version that is not terminal is ready_for_payment exactly
\* when line items, options, a selection, an address and a buyer are all
\* present, and not_ready_for_payment otherwise
C8_StatusMatchesReadiness ==
  \A it \in sessionHistoryTable :
    it.Data.status \notin {"completed", "canceled"}
    => IF C8_Conditions(it.Data)
       THEN it.Data.status = "ready_for_payment"
       ELSE it.Data.status = "not_ready_for_payment"

\* a ready version followed by a version that an update made not ready
C8_Witness ==
  \E a \in sessionHistoryTable, b \in sessionHistoryTable :
    /\ a.SessionId = b.SessionId
    /\ b.Version = a.Version + 1
    /\ a.Data.status = "ready_for_payment"
    /\ b.Data.status = "not_ready_for_payment"
    /\ b.Data.buyer # Undefined

\* C9: a complete with payment data and an unrecorded key, on a session
\* whose latest status is not ready_for_payment, is rejected with
\* already_completed; it appends no version, creates no order and
\* dispatches no webhook
C9_CompleteRejectedUnlessReady ==
  \A w \in Workers :
    (/\ Done(w) /\ req[w].op = "complete" /\ req[w].body.payment_data
     /\ ~req[w].replay
     /\ req[w].seenVersion > 0
     /\ req[w].seenStatus # "ready_for_payment")
    => /\ req[w].res.code = 400
       /\ req[w].res.type = "invalid_request"
       /\ req[w].res.errcode = "already_completed"
       /\ req[w].saves = 0
       /\ req[w].ordersCreated = 0
       /\ req[w].events = <<>>

\* a complete was rejected on a session that is already completed
C9_Witness ==
  \E w \in Workers :
    /\ Done(w) /\ req[w].op = "complete"
    /\ req[w].seenStatus = "completed"
    /\ req[w].res.errcode = "already_completed"

\* C10: a cancel on a session whose latest status is completed or canceled
\* is rejected with cancellation_not_allowed, appends no version and
\* dispatches no webhook; on a session that is not terminal it appends one
\* version with status canceled
C10_CancelRejectedWhenTerminal ==
  \A w \in Workers :
    (Done(w) /\ req[w].op = "cancel" /\ req[w].seenVersion > 0)
    => IF req[w].seenStatus \in {"completed", "canceled"}
       THEN /\ req[w].res.code = 400
            /\ req[w].res.errcode = "cancellation_not_allowed"
            /\ req[w].saves = 0
            /\ req[w].events = <<>>
       ELSE req[w].saved > 0 => req[w].res.body.status = "canceled"

\* C11: a create, update or complete whose idempotency key is recorded in
\* the history it read is answered by replay, and the replay calls neither
\* getMerchantData nor createOrder, appends no version and dispatches no
\* webhook
C11_ReplayHasNoSideEffect ==
  \A w \in Workers :
    (Done(w) /\ req[w].op \in {"create", "update", "complete"} /\ req[w].keyFound)
    => /\ req[w].replay
       /\ req[w].res.code = 201
       /\ req[w].merchantCalls = 0
       /\ req[w].ordersCreated = 0
       /\ req[w].saves = 0
       /\ req[w].events = <<>>

\* a create sent again under the key that created the session
C11_Witness ==
  \E w \in Workers :
    /\ Done(w) /\ req[w].op = "create" /\ req[w].replay
    /\ req[w].seenVersion > 0

\* C12: when getMerchantData fails in create or update, or createOrder fails
\* in complete, the request is answered with an error, appends no version
\* and dispatches no webhook, and the history of the session ends with the
\* version the request read
C12_FailedCallCommitsNothing ==
  \A w \in Workers :
    (Done(w) /\ req[w].failed \in {"getMerchantData", "createOrder"})
    => /\ req[w].res.code = 500
       /\ req[w].saves = 0
       /\ req[w].events = <<>>
       /\ latestVersionOf(SessionItems(req[w].sid)) = req[w].seenVersion

\* order creation failed for a session that was ready for payment
C12_Witness ==
  \E w \in Workers :
    /\ Done(w) /\ req[w].op = "complete" /\ req[w].failed = "createOrder"
    /\ req[w].seenStatus = "ready_for_payment"

\* C13: get, update, complete with payment data and cancel on a session id
\* without versions answer resource_not_found, append no version and
\* dispatch no webhook
C13_NotFoundWithoutVersions ==
  \A w \in Workers :
    (/\ Done(w) /\ req[w].op \in {"get", "update", "complete", "cancel"}
     /\ req[w].op = "complete" => req[w].body.payment_data
     /\ req[w].seenVersion = 0)
    => /\ req[w].res.code = 404
       /\ req[w].res.errcode = "resource_not_found"
       /\ req[w].saves = 0
       /\ req[w].events = <<>>

\* a cancel on a session id that a failed create had allocated, and a
\* request on an id that was never allocated
C13_Witness ==
  \E w \in Workers :
    /\ Done(w) /\ req[w].op \in {"update", "cancel"}
    /\ req[w].res.errcode = "resource_not_found"
    /\ \E m \in idempotencyTable : m.SessionId = req[w].sid

StoredItem(sid, version) ==
  CHOOSE it \in sessionHistoryTable : it.SessionId = sid /\ it.Version = version

C18_EventType(op) ==
  CASE op = "create" -> "checkout.session.created"
    [] op = "update" -> "checkout.session.updated"
    [] op = "cancel" -> "checkout.session.cancelled"

\* C18: a create, update or cancel that appended a version has dispatched
\* exactly one session event, of the type of the operation and carrying the
\* snapshot stored in that version; a request that appended no version has
\* dispatched no event
C18_OneEventAfterAppend ==
  \A w \in Workers :
    Done(w) =>
      IF req[w].saved = 0 THEN req[w].events = <<>>
      ELSE req[w].op \in {"create", "update", "cancel"}
           => /\ \E it \in sessionHistoryTable :
                   it.SessionId = req[w].sid /\ it.Version = req[w].saved
              /\ Len(req[w].events) = 1
              /\ req[w].events[1].type = C18_EventType(req[w].op)
              /\ req[w].events[1].checkout_session_id = req[w].sid
              /\ req[w].events[1].session = StoredItem(req[w].sid, req[w].saved).Data

\* a cancel appended a version and dispatched its cancelled event
C18_Witness ==
  \E w \in Workers :
    /\ Done(w) /\ req[w].op = "cancel" /\ req[w].saved > 1
    /\ req[w].events[1].type = "checkout.session.cancelled"

\* C19: a complete that is carried out and answered with success has
\* appended one version with status completed, returns that snapshot with
\* its order, and has dispatched one checkout.session.completed event and
\* one order.created event carrying the id and permalink of that order
C19_CompleteAppendsAndDispatches ==
  \A w \in Workers :
    (Done(w) /\ req[w].op = "complete" /\ req[w].res.code = 201 /\ ~req[w].replay)
    => /\ req[w].saves = 1
       /\ req[w].saved = req[w].seenVersion + 1
       /\ \E it \in sessionHistoryTable :
            it.SessionId = req[w].sid /\ it.Version = req[w].saved
       /\ LET data == StoredItem(req[w].sid, req[w].saved).Data
          IN /\ data.status = "completed"
             /\ data.order # NoOrder
             /\ req[w].res.body = data
             /\ Len(req[w].events) = 2
             /\ req[w].events[1].type = "checkout.session.completed"
             /\ req[w].events[1].session = data
             /\ req[w].events[2].type = "order.created"
             /\ req[w].events[2].checkout_session_id = req[w].sid
             /\ req[w].events[2].order.id = data.order.id
             /\ req[w].events[2].order.permalink_url = data.order.permalink_url

\* a complete appended the completed version of a session
C19_Witness ==
  \E w \in Workers :
    /\ Done(w) /\ req[w].op = "complete" /\ req[w].res.code = 201
    /\ req[w].saved > 1
    /\ req[w].res.body.order.id > 0

\* C20: in every stored version each selected fulfillment option names an
\* option of that version
C20_SelectionsAmongOptions ==
  \A it \in sessionHistoryTable :
    \A i \in 1..Len(it.Data.selected_fulfillment_options) :
      it.Data.selected_fulfillment_options[i].option_id
        \in OptionIds(it.Data.fulfillment_options)

\* a version whose client-chosen selection is followed by a version with
\* other options, in which that selection was replaced
C20_Witness ==
  \E a \in sessionHistoryTable, b \in sessionHistoryTable :
    /\ a.SessionId = b.SessionId
    /\ b.Version = a.Version + 1
    /\ a.Data.selected_fulfillment_options # <<>>
    /\ a.Data.selected_fulfillment_options[1].option_id = "ship_expedited"
    /\ b.Data.fulfillment_options = DefaultShippingOptions
    /\ b.Data.selected_fulfillment_options[1].option_id = "ship_standard"

Pending == {deliveries[i] : i \in 1..Len(deliveries)}

\* the outcomes send has dealt with: all it has received, but for a response
\* whose body it still awaits
Handled(d) ==
  IF d.pc = "text" THEN SubSeq(d.statuses, 1, Len(d.statuses) - 1)
  ELSE d.statuses

NoUrl == ~webhookConfig.enabled \/ webhookConfig.url = ""

\* C14: one call of send makes at most 3 HTTP attempts; an attempt answered
\* 2xx is the last one and makes send return true; a service that is
\* disabled or has no URL makes no attempt and returns false
C14_AtMostThreeAttempts ==
  \A d \in Pending :
    /\ Len(d.statuses) <= 3
    /\ \A k \in 1..Len(d.statuses) :
         (d.statuses[k][1] >= 200 /\ d.statuses[k][1] <= 299)
         => k = Len(d.statuses) /\ d.pc = "returned" /\ d.result
    /\ NoUrl => d.statuses = <<>> /\ d.pc = "returned" /\ ~d.result

\* an event delivered by the third attempt
C14_Witness ==
  \E d \in Pending :
    /\ Len(d.statuses) = 3
    /\ d.statuses[3][1] = 200
    /\ d.pc = "returned" /\ d.result

\* C15: an attempt answered 4xx is the last attempt for its event, and send
\* returns false, whichever attempt it was
C15_ClientErrorIsTerminal ==
  \A d \in Pending :
    \A k \in 1..Len(Handled(d)) :
      (d.statuses[k][1] >= 400 /\ d.statuses[k][1] <= 499)
      => k = Len(d.statuses) /\ d.pc = "returned" /\ ~d.result

C16_Failure(outcome) == outcome = Threw \/ outcome[1] >= 500

C16_AllFailed(d) ==
  /\ Handled(d) # <<>>
  /\ \A k \in 1..Len(d.statuses) : C16_Failure(d.statuses[k])

C16_Backoff ==
  \A d \in Pending :
    C16_AllFailed(d)
    => /\ d.delays = SubSeq(<<1000, 2000>>, 1,
                            IF Len(Handled(d)) < 2 THEN Len(Handled(d)) ELSE 2)
       /\ d.pc = "returned" => Len(d.statuses) = 3 /\ ~d.result

\* C16: when every attempt fails with a 5xx response or a thrown error, send
\* makes exactly 3 attempts, waits 1000 ms after the first and 2000 ms after
\* the second and not after the third, and returns false; every call of
\* send returns
C16_ExhaustsAndTerminates ==
  /\ [] C16_Backoff
  /\ (deliveries # <<>>) ~> (deliveries # <<>> /\ deliveries[1].pc = "returned")

\* three failed attempts, a thrown error among them, and send has returned
C16_Witness ==
  \E d \in Pending :
    /\ d.pc = "returned" /\ ~d.result
    /\ Len(d.statuses) = 3
    /\ d.statuses[1] = Threw
    /\ d.statuses[2][1] = 503
    /\ d.statuses[3][1] = 500
    /\ d.delays = <<1000, 2000>>

C17_Committed ==
  \A w \in Workers :
    (Done(w) /\ req[w].saved > 0)
    => /\ req[w].res.code = 201
       /\ \E it \in sessionHistoryTable :
            /\ it.SessionId = req[w].sid /\ it.Version = req[w].saved
            /\ it.Data = req[w].res.body

\* C17: a create, update, complete or cancel that appended a version answers
\* 201 with the stored snapshot at the moment it detaches its deliveries,
\* before any fetch has settled; no step of a delivery, whatever its
\* outcome, changes a response or a store, and no stored version is ever
\* removed or changed
C17_DeliveryNeverReachesCaller ==
  /\ [] C17_Committed
  /\ [][\A w \in Workers :
          (req[w].pc = "save" /\ req'[w].pc = "done" /\ req'[w].saved > 0 /\ ~NoUrl)
          => /\ Len(deliveries') = Len(deliveries) + Len(req'[w].events)
             /\ \A i \in (Len(deliveries) + 1)..Len(deliveries') :
                  deliveries'[i].pc = "fetch" /\ deliveries'[i].statuses = <<>>]_vars
  /\ [][(deliveries' # deliveries /\ Len(deliveries') <= Len(deliveries))
        => /\ req' = req
           /\ sessionHistoryTable' = sessionHistoryTable
           /\ idempotencyTable' = idempotencyTable
           /\ orders' = orders]_vars
  /\ [][\A it \in sessionHistoryTable : it \in sessionHistoryTable']_vars

\* the delivery of a completed event was given up after three attempts,
\* and the completed version it reports is stored
C17_Witness ==
  \E d \in Pending :
    /\ d.pc = "returned" /\ ~d.result
    /\ Len(d.statuses) = 3
    /\ d.payload.type = "checkout.session.completed"
    /\ \E it \in sessionHistoryTable :
         it.Data = d.payload.session /\ it.Data.status = "completed"

\* the state the request of the client of SpecCart read, and the state it
\* stored
CartBefore ==
  IF req[1].seenVersion = 0 THEN NewSession(req[1].sid)
  ELSE StoredItem(req[1].sid, req[1].seenVersion).Data

CartStored ==
  /\ Done(1) /\ req[1].op \in {"create", "update"}
  /\ req[1].saved > 0

OptionTypes(options) == {options[i].type : i \in 1..Len(options)}

\* new merchant data replaced the options by a list that is not empty, and
\* the selection the session had is empty or names an option that is gone
C21_Replaced ==
  /\ CartStored
  /\ lastBody.items.given
  /\ req[1].session.fulfillment_options # <<>>
  /\ \/ CartBefore.selected_fulfillment_options = <<>>
     \/ \E i \in 1..Len(CartBefore.selected_fulfillment_options) :
          CartBefore.selected_fulfillment_options[i].option_id
            \notin OptionIds(req[1].session.fulfillment_options)

\* the entries supplied by the request that name an option of the stored
\* version, in their order
SuppliedAmongStored ==
  SelectSeq(lastBody.selected_fulfillment_options.value,
            LAMBDA sel :
              sel.option_id \in OptionIds(req[1].session.fulfillment_options))

\* the position of the last of the options with the lowest total
LastLowest(options) ==
  CHOOSE i \in 1..Len(options) :
    \A j \in 1..Len(options) :
      /\ options[i].total <= options[j].total
      /\ j > i => options[i].total < options[j].total

\* one entry, for all line items, naming the last of the stored options
\* with the lowest total
LowestSelected ==
  LET options == req[1].session.fulfillment_options
  IN << [type |-> options[LastLowest(options)].type,
         option_id |-> options[LastLowest(options)].id,
         item_ids |-> ItemIds(req[1].session.line_items)] >>

\* C21 (as stated): after such a replacement the stored selection holds,
\* for each fulfillment type present among the options, the option of that
\* type with the lowest total
C21_CheapestPerType ==
  C21_Replaced =>
    LET options == req[1].session.fulfillment_options
        selected == req[1].session.selected_fulfillment_options
    IN /\ selected # <<>>
       /\ \A t \in OptionTypes(options) :
            \E k \in 1..Len(selected), i \in 1..Len(options) :
              /\ selected[k].type = t
              /\ options[i].type = t
              /\ options[i].id = selected[k].option_id
              /\ \A j \in 1..Len(options) :
                   options[j].type = t => options[i].total <= options[j].total

\* C21 (amended): after such a replacement the stored selection is one
\* entry, for all line items, naming the last of the options with the
\* lowest total, unless the same request supplies entries that name
\* options of the new list, which are then the selection
C21_CheapestUnlessChosen ==
  C21_Replaced =>
    req[1].session.selected_fulfillment_options =
      (IF SuppliedAmongStored # <<>> THEN SuppliedAmongStored
       ELSE LowestSelected)

\* an update replaced the options by a list without the selected option,
\* whose totals are tied, and supplied no entry naming one of them
C21_Witness ==
  /\ C21_Replaced
  /\ req[1].op = "update"
  /\ CartBefore.selected_fulfillment_options # <<>>
  /\ SuppliedAmongStored = <<>>
  /\ req[1].session.fulfillment_options = EmptyCartShippingOptions
  /\ req[1].session.selected_fulfillment_options[1].option_id = "express"

\* a task has just read the history of a session
C22_ReadsHistory(w) ==
  /\ req[w].pc \in {"idle", "getSessionHistory"}
  /\ req'[w].pc \notin {"idle", "getSessionHistory"}
  /\ req'[w].sid # 0
  /\ req'[w].res.errcode # "missing_payment_data"

\* C22: a stored version keeps its snapshot, reason and idempotency key
\* whatever is written afterwards, also by a writer racing for the same
\* version number, and every operation works on the snapshot of the
\* highest version number of its session
C22_VersionsImmutableLatestUsed ==
  /\ [][\A it \in sessionHistoryTable :
          \A kept \in sessionHistoryTable' :
            (kept.SessionId = it.SessionId /\ kept.Version = it.Version)
            => /\ kept.Data = it.Data
               /\ kept.Reason = it.Reason
               /\ kept.IdempotencyKey = it.IdempotencyKey]_vars
  /\ [][\A it \in sessionHistoryTable :
          \E kept \in sessionHistoryTable' :
            kept.SessionId = it.SessionId /\ kept.Version = it.Version]_vars
  /\ [][\A w \in Workers :
          C22_ReadsHistory(w)
          => /\ \A it \in SessionItems(req'[w].sid) :
                  it.Version <= req'[w].seenVersion
             /\ req'[w].seenVersion > 0
                  => \E it \in SessionItems(req'[w].sid) :
                       /\ it.Version = req'[w].seenVersion
                       /\ it.Data.status = req'[w].seenStatus
                       /\ (req'[w].op = "get" => req'[w].res.body = it.Data)
                       /\ (req'[w].pc = "save" /\ req'[w].op = "cancel"
                             /\ it.Data.status \notin {"completed", "canceled"})
                            => req'[w].session =
                                 [it.Data EXCEPT !.status = "canceled"]]_vars

\* a writer lost the race for a version number, and the stored version is
\* the snapshot of the winner, not the one the loser tried to store
C22_Witness ==
  \E w \in Workers :
    /\ LostAppend(w)
    /\ StoredItem(req[w].sid, req[w].version).Data # req[w].session
    /\ StoredItem(req[w].sid, req[w].version).Reason # req[w].reason

\* the conditional insert of the task's key-to-session mapping was refused,
\* because a racing create with the same key had inserted its own first
C23_LostInsert(w) ==
  Done(w) /\ req[w].op = "create" /\ req[w].failed = "setSessionId"

\* C23: a create that loses the conditional insert of its idempotency key
\* to a racing create re-reads the index and goes on with the session id
\* of the winner instead of failing
C23_LoserContinuesWithWinner ==
  \A w \in Workers :
    C23_LostInsert(w)
    => /\ req[w].res.code = 201
       /\ req[w].res.body.id = getSessionIdByIdempotencyKey(req[w].key)

\* a create that came without Idempotency-Key, or with an empty one, has
\* been answered with a session
C24_CreatedWithoutKey(w) ==
  /\ Done(w) /\ req[w].op = "create"
  /\ req[w].key \notin ClientKeys
  /\ req[w].res.code = 201

\* C24 (as stated): such a create gets a session id of its own and leaves
\* the idempotency index without any mapping to that session
C24_NoMappingPersisted ==
  \A w \in Workers :
    C24_CreatedWithoutKey(w)
    => /\ req[w].existing = 0 /\ req[w].saved = 1
       /\ \A m \in idempotencyTable : m.SessionId # req[w].res.body.id

\* C24 (amended): such a create runs under a key generated for it alone,
\* gets a session id of its own, at version 1, and adds to the idempotency
\* index the one mapping from the generated key to that session id
C24_GeneratedKeyIsMapped ==
  \A w \in Workers :
    C24_CreatedWithoutKey(w)
    => /\ req[w].existing = 0 /\ req[w].saved = 1 /\ ~req[w].replay
       /\ req[w].key # NoKey
       /\ \A m \in idempotencyTable :
            m.SessionId = req[w].res.body.id <=> m.IdempotencyKey = req[w].key

\* the second create without a key: it got session 2, while session 1 is
\* mapped by the key generated for the first
C24_Witness ==
  \E w \in Workers :
    /\ C24_CreatedWithoutKey(w)
    /\ req[w].res.body.id = 2
    /\ \E m \in idempotencyTable :
         m.SessionId = 1 /\ m.IdempotencyKey \notin ClientKeys

\* C25: a create, update, complete or cancel that fails on a store
\* conflict or on a failure of the merchant or order capability answers
\* with an error of type processing_error
C25_FailuresAreProcessingErrors ==
  \A w \in Workers :
    (Done(w) /\ (LostAppend(w) \/ req[w].failed # ""))
    => /\ req[w].res.code = 500
       /\ req[w].res.type = "processing_error"

\* C26: every attempt of a delivery carries, as its signature header, the
\* HMAC-SHA256 of exactly the body it sends under the shared secret, and
\* all attempts of one event send the same body and the same signature
C26_SignatureOfBodySent ==
  \A d \in Pending :
    /\ Len(d.sent) = Len(d.statuses) + (IF d.pc = "fetch" THEN 1 ELSE 0)
    /\ \A k \in 1..Len(d.sent) :
         /\ d.sent[k].body = <<"json", d.payload>>
         /\ d.sent[k].webhookSignature =
              <<"hmac-sha256", webhookConfig.secretKey, d.sent[k].body>>
         /\ d.sent[k].body = d.sent[1].body
         /\ d.sent[k].webhookSignature = d.sent[1].webhookSignature

\* three attempts of one event, signed with a configured secret
C26_Witness ==
  \E d \in Pending :
    /\ Len(d.sent) = 3
    /\ d.statuses = <<Threw, <<500, TRUE>>, <<204, TRUE>>>>
    /\ webhookConfig.secretKey = "agent-webhook-secret"
    /\ d.payload.type = "order.created"

\* C27: the selection of every stored version holds at most one entry per
\* fulfillment-option type, whatever selections the client supplied
C27_OneSelectionPerType ==
  \A it \in sessionHistoryTable :
    \A i, j \in 1..Len(it.Data.selected_fulfillment_options) :
      it.Data.selected_fulfillment_options[i].type
        = it.Data.selected_fulfillment_options[j].type
      => i = j

RECURSIVE C28_SumUpTo(_, _, _)
C28_SumUpTo(lineItems, n, f) ==
  IF n = 0 THEN 0 ELSE C28_SumUpTo(lineItems, n - 1, f) + lineItems[n][f]

C28_Amount(totals, type) ==
  totals[CHOOSE i \in 1..Len(totals) : totals[i].type = type].amount

\* the five totals are the sums over the line items
C28_TotalsOf(state) ==
  LET li == state.line_items
      n == Len(state.line_items)
  IN /\ {state.totals[i].type : i \in 1..Len(state.totals)} =
          {"items_base_amount", "items_discount", "subtotal", "tax", "total"}
     /\ Len(state.totals) = 5
     /\ C28_Amount(state.totals, "items_base_amount") = C28_SumUpTo(li, n, "base_amount")
     /\ C28_Amount(state.totals, "items_discount") = 0 - C28_SumUpTo(li, n, "discount")
     /\ C28_Amount(state.totals, "subtotal") = C28_SumUpTo(li, n, "subtotal")
     /\ C28_Amount(state.totals, "tax") = C28_SumUpTo(li, n, "tax")
     /\ C28_Amount(state.totals, "total") = C28_SumUpTo(li, n, "total")

\* C28: the totals of every stored version are determined by the line
\* items of that version alone: they are the sums of the line-item fields
\* (the discount negated), or empty while no line items were ever set; a
\* request replaces line items and totals together or leaves both
C28_TotalsFollowLineItems ==
  /\ \A it \in sessionHistoryTable :
       /\ it.Data.line_items # <<>> => C28_TotalsOf(it.Data)
       /\ it.Data.line_items = <<>> => it.Data.totals = <<>> \/ C28_TotalsOf(it.Data)
  /\ \A a \in sessionHistoryTable, b \in sessionHistoryTable :
       (a.Data.line_items = b.Data.line_items /\ a.Data.line_items # <<>>)
       => a.Data.totals = b.Data.totals
  /\ CartStored
     => IF lastBody.items.given
        THEN /\ C28_TotalsOf(req[1].session)
             /\ Len(req[1].session.line_items) = Len(lastBody.items.value)
             /\ \A i \in 1..Len(lastBody.items.value) :
                  req[1].session.line_items[i].item = lastBody.items.value[i]
        ELSE /\ req[1].session.line_items = CartBefore.line_items
             /\ req[1].session.totals = CartBefore.totals

\* an update replaced the two line items of version 1 by one discounted,
\* taxed line item, and the totals with them
C28_Witness ==
  /\ CartStored /\ req[1].op = "update"
  /\ Len(CartBefore.line_items) = 2
  /\ Len(req[1].session.line_items) = 1
  /\ C28_Amount(req[1].session.totals, "items_discount") < 0
  /\ C28_Amount(req[1].session.totals, "tax") > 0
  /\ req[1].session.totals # CartBefore.totals
  /\ \E it \in sessionHistoryTable : it.Data = req[1].session

\* a create stored version 1 of a new session
C29_Created(w) ==
  /\ Done(w) /\ req[w].op = "create"
  /\ req[w].seenVersion = 0 /\ req[w].saved = 1

\* a complete with payment data found version 1, ready for payment, and
\* neither the order capability failed nor another writer took version 2
C29_CompletedDirectly(w) ==
  /\ Done(w) /\ req[w].op = "complete"
  /\ req[w].body.payment_data
  /\ req[w].seenVersion = 1 /\ req[w].seenStatus = "ready_for_payment"
  /\ ~req[w].replay /\ req[w].failed = "" /\ ~LostAppend(w)

\* C29: a create with items, buyer and an address, to which the merchant
\* returns at least one option, stores version 1 as ready_for_payment, and
\* a complete with payment data directly after it succeeds with status
\* completed; a create with items alone stores not_ready_for_payment
C29_ReadyAtCreation ==
  \A w \in Workers :
    /\ C29_Created(w)
       => LET s == StoredItem(req[w].sid, 1).Data
          IN /\ req[w].res.body = s
             /\ (/\ s.line_items # <<>> /\ s.fulfillment_options # <<>>
                 /\ s.buyer # Undefined
                 /\ s.fulfillment_details \notin {Undefined, NoAddress})
                => s.status = "ready_for_payment"
             /\ (/\ s.line_items # <<>>
                 /\ s.buyer = Undefined /\ s.fulfillment_details = Undefined)
                => s.status = "not_ready_for_payment"
    /\ C29_CompletedDirectly(w)
       => /\ req[w].res.type = "" /\ req[w].res.code < 300
          /\ req[w].res.body.status = "completed"
          /\ req[w].saved = 2
          /\ StoredItem(req[w].sid, 2).Data.status = "completed"

\* version 1 was created ready for payment and the complete that followed
\* stored version 2
C29_Witness ==
  \E w \in Workers :
    /\ C29_CompletedDirectly(w)
    /\ StoredItem(req[w].sid, 1).Reason = "created"
    /\ StoredItem(req[w].sid, 1).Data.status = "ready_for_payment"
    /\ StoredItem(req[w].sid, 2).Reason = "completed"

\* C30: a create that succeeds answers 201, and a get, update, complete or
\* cancel that succeeds answers 200
C30_SuccessStatusCodes ==
  \A w \in Workers :
    (Done(w) /\ req[w].res.type = "")
    => req[w].res.code = (IF req[w].op = "create" THEN 201 ELSE 200)

\* C31: a complete addressed to a session id without versions is answered
\* resource_not_found whatever its body, also when it has no payment data
C31_AbsentSessionReported ==
  \A w \in Workers :
    (Done(w) /\ req[w].op = "complete" /\ SessionItems(req[w].sid) = {})
    => /\ req[w].res.code = 404
       /\ req[w].res.errcode = "resource_not_found"

\* the update stored by the client of SpecCart supplied selections
C32_SelectionsSupplied ==
  /\ CartStored /\ req[1].op = "update"
  /\ lastBody.selected_fulfillment_options.given

\* the update stored by the client of SpecCart supplied a buyer and
\* nothing else
C32_BuyerSupplied ==
  /\ CartStored /\ req[1].op = "update"
  /\ lastBody.buyer # Undefined
  /\ ~lastBody.items.given
  /\ lastBody.fulfillment_details = Undefined
  /\ ~lastBody.selected_fulfillment_options.given

\* the supplied entries that name an available option, in their order
C32_Available == SuppliedAmongStored

\* the selection that the replacement of the options leaves: none without
\* options, the one the session had when all its ids are among the new
\* options, and otherwise the last of the options with the lowest total
C32_AfterNewOptions ==
  IF req[1].session.fulfillment_options = <<>> THEN <<>>
  ELSE IF /\ CartBefore.selected_fulfillment_options # <<>>
          /\ \A i \in 1..Len(CartBefore.selected_fulfillment_options) :
               CartBefore.selected_fulfillment_options[i].option_id
                 \in OptionIds(req[1].session.fulfillment_options)
       THEN CartBefore.selected_fulfillment_options
       ELSE LowestSelected

\* an update that supplies only a buyer changes buyer and status and no
\* other field
C32_BuyerFrame ==
  C32_BuyerSupplied
  => /\ req[1].session.buyer = lastBody.buyer
     /\ [req[1].session EXCEPT !.buyer = CartBefore.buyer,
                               !.status = CartBefore.status] = CartBefore

\* C32 (as stated): an update that supplies selections stores exactly the
\* supplied entries that name available option ids when there is one, and
\* the selection it found when there is none; an update that supplies only
\* a buyer changes buyer and status and no other field
C32_SelectionOrPrevious ==
  /\ C32_SelectionsSupplied
     => req[1].session.selected_fulfillment_options =
          (IF C32_Available # <<>> THEN C32_Available
           ELSE CartBefore.selected_fulfillment_options)
  /\ C32_BuyerFrame

\* C32 (amended): an update that supplies selections stores exactly the
\* supplied entries that name options of the new version when there is
\* one; when there is none it stores the selection it found if it supplies
\* no items, and the selection that the replacement of the options leaves
\* if it supplies items; an update that supplies only a buyer changes
\* buyer and status and no other field
C32_SelectionAndBuyerFrame ==
  /\ C32_SelectionsSupplied
     => req[1].session.selected_fulfillment_options =
          (IF C32_Available # <<>> THEN C32_Available
           ELSE IF lastBody.items.given THEN C32_AfterNewOptions
           ELSE CartBefore.selected_fulfillment_options)
  /\ C32_BuyerFrame

\* of two supplied entries the one naming an available option was stored,
\* in place of another selection
C32_Witness ==
  /\ C32_SelectionsSupplied
  /\ Len(lastBody.selected_fulfillment_options.value) = 2
  /\ Len(C32_Available) = 1
  /\ CartBefore.selected_fulfillment_options # C32_Available
  /\ StoredItem(req[1].sid, req[1].saved).Data.selected_fulfillment_options
       = C32_Available

\* C33: within the history of one session an idempotency key is recorded
\* on at most one version, whatever keys the clients reuse
C33_KeyOnOneVersion ==
  \A a \in sessionHistoryTable, b \in sessionHistoryTable :
    (a.SessionId = b.SessionId /\ a.IdempotencyKey = b.IdempotencyKey)
    => a.Version = b.Version

Success(w) == Done(w) /\ req[w].res.type = "" /\ req[w].res.code < 300

\* C34: every success response of complete carries status completed and an
\* order, and every success response of cancel carries status canceled,
\* also when the request reuses the key of an earlier create or update
C34_SuccessBodyIsTerminal ==
  \A w \in Workers :
    /\ (Success(w) /\ req[w].op = "complete")
       => /\ req[w].res.body.status = "completed"
          /\ req[w].res.body.order # NoOrder
    /\ (Success(w) /\ req[w].op = "cancel")
       => req[w].res.body.status = "canceled"

\* C35: the reason of a stored version agrees with its status: completed
\* goes with status completed and an order, canceled with status canceled,
\* and a version with reason created or updated has a terminal status only
\* if the version before it had that status
C35_ReasonAgreesWithStatus ==
  \A it \in sessionHistoryTable :
    /\ it.Reason = "completed"
       => it.Data.status = "completed" /\ it.Data.order # NoOrder
    /\ it.Reason = "canceled" => it.Data.status = "canceled"
    /\ (it.Reason \in {"created", "updated"}
          /\ it.Data.status \in {"completed", "canceled"})
       => \E prev \in SessionItems(it.SessionId) :
            /\ prev.Version = it.Version - 1
            /\ prev.Data.status = it.Data.status

\* C36: a create, update, complete or cancel that answers with success
\* without replaying has appended a version, and its body is the snapshot
\* stored in that version; a request whose append failed answers with an
\* error
C36_BodyIsStoredSnapshot ==
  \A w \in Workers :
    /\ (Success(w) /\ ~req[w].replay
          /\ req[w].op \in {"create", "update", "complete", "cancel"})
       => /\ req[w].saved = req[w].seenVersion + 1
          /\ \E it \in SessionItems(req[w].sid) :
               /\ it.Version = req[w].saved
               /\ it.IdempotencyKey = req[w].key
               /\ it.Data = req[w].res.body
          /\ Cardinality({it \in SessionItems(req[w].sid) :
                            it.Version = req[w].saved}) = 1
    /\ LostAppend(w) => req[w].res.code >= 400 /\ req[w].res.type # ""

\* a complete answered with the snapshot of the version it appended, the
\* order in it
C36_Witness ==
  \E w \in Workers :
    /\ Success(w) /\ req[w].op = "complete" /\ ~req[w].replay
    /\ req[w].res.body.order # NoOrder
    /\ StoredItem(req[w].sid, req[w].saved).Data = req[w].res.body
    /\ StoredItem(req[w].sid, req[w].saved).Reason = "completed"

\* C38: an update of a session that is completed or canceled stores a
\* version with the line items, totals, buyer, fulfillment details,
\* selection and order of the version before it
C38_TerminalContentsKept ==
  \A a \in sessionHistoryTable, b \in sessionHistoryTable :
    (/\ a.SessionId = b.SessionId
     /\ b.Version = a.Version + 1
     /\ a.Data.status \in {"completed", "canceled"}
     /\ b.Reason = "updated")
    => /\ b.Data.line_items = a.Data.line_items
       /\ b.Data.totals = a.Data.totals
       /\ b.Data.buyer = a.Data.buyer
       /\ b.Data.fulfillment_details = a.Data.fulfillment_details
       /\ b.Data.selected_fulfillment_options = a.Data.selected_fulfillment_options
       /\ b.Data.order = a.Data.order

\* C39: version 1 of every session has reason created and no other version
\* has: a create never appends to a session that has versions, and update,
\* complete and cancel never append version 1
C39_CreatedIsVersionOne ==
  \A it \in sessionHistoryTable : it.Version = 1 <=> it.Reason = "created"

\* two creates with the same key raced for version 1 of the session the
\* key was mapped to, one lost, and the session has gone on to version 2
C39_Witness ==
  \E w \in Workers :
    /\ LostAppend(w) /\ req[w].op = "create" /\ req[w].version = 1
    /\ \E it \in SessionItems(req[w].sid) : it.Version = 2

\* C37: in every stored version the selection is non-empty exactly when
\* the fulfillment options are: an empty option list clears the selection,
\* a non-empty one leaves a selection, and no selection a client supplies
\* empties it
C37_SelectionIffOptions ==
  \A it \in sessionHistoryTable :
    it.Data.selected_fulfillment_options # <<>>
      <=> it.Data.fulfillment_options # <<>>

\* the merchant returned no options for the new items of a session that
\* had a selection: the stored version has neither options nor selection
C37_Witness ==
  /\ CartStored /\ req[1].op = "update"
  /\ lastBody.items.given
  /\ CartBefore.selected_fulfillment_options # <<>>
  /\ StoredItem(req[1].sid, req[1].saved).Data.fulfillment_options = <<>>
  /\ StoredItem(req[1].sid, req[1].saved).Data.selected_fulfillment_options = <<>>


\* the handler of the queue-driven sender has thrown or returned
Returned == sqs.pc \in {"failed", "succeeded"}

\* the record's body is JSON whose data member is neither missing nor null
C40_Deliverable(rec) == parses(rec.body) /\ hasData(parse(rec.body))

\* C40: with its environment set, the queue-driven sender has, when an
\* invocation ends, settled every record of the batch and made one fetch
\* per receipt of the batch for every record whose body is JSON with a
\* data member that is not null, and none for another record, whatever
\* became of the other records; the invocation fails if and only if at
\* least one record was rejected; a record without a fetch is rejected,
\* and a record is
\* fulfilled only after a 2xx answer; and a batch received again is
\* processed as a whole, so a record already answered 2xx is fetched again.
C40_BatchFailsIffARecordFails ==
  (Returned /\ ~missingEnv(sqs.env)) =>
    /\ \A i \in 1..Len(sqs.records) :
         /\ sqs.records[i].pc \in {"fulfilled", "rejected"}
         /\ sqs.records[i].fetches =
              (IF C40_Deliverable(sqs.records[i]) THEN sqs.receives ELSE 0)
         /\ sqs.records[i].accepted <= sqs.records[i].fetches
         /\ sqs.records[i].pc = "fulfilled" => sqs.records[i].accepted > 0
    /\ (sqs.pc = "failed") <=>
         (\E i \in 1..Len(sqs.records) : sqs.records[i].pc = "rejected")

\* C40 as stated, without the condition on the environment: whenever an
\* invocation ends, every record of the batch has been settled and the
\* invocation has failed if and only if at least one record was rejected.
C40_FailsOnlyOnRecordFailure ==
  Returned =>
    /\ \A i \in 1..Len(sqs.records) :
         sqs.records[i].pc \in {"fulfilled", "rejected"}
    /\ (sqs.pc = "failed") <=>
         (\E i \in 1..Len(sqs.records) : sqs.records[i].pc = "rejected")

\* a batch of two failed because of its second record, whose data is null
\* and which was never fetched, after the first had been answered 2xx, was
\* received again, and the first was accepted a second time
C40_Witness ==
  /\ Returned
  /\ ~missingEnv(sqs.env)
  /\ sqs.receives = 2
  /\ Len(sqs.records) = 2
  /\ sqs.records[1].accepted = 2
  /\ sqs.records[1].pc = "fulfilled"
  /\ sqs.records[2].body = stringify(EventWithNullData)
  /\ sqs.records[2].fetches = 0
  /\ sqs.records[2].pc = "rejected"

====
